---- MODULE Spec2Model ----
(***************************************************************************)
(* Music Playlist Manager (main.c): the in-memory playlist, the CSV codec  *)
(* and the interactive command loop.                                       *)
(*                                                                         *)
(* A C string is a sequence of one-character strings, <<"A","b">>; the     *)
(* terminating NUL is implicit.  A NULL pointer is the value NULL.         *)
(***************************************************************************)
EXTENDS Integers, Sequences, FiniteSets, TLC

(* ------------------------------------------------------------------ *)
(* Characters and <ctype.h>/<string.h>/<stdlib.h> in the C locale       *)
(* ------------------------------------------------------------------ *)
Q     == "\""
COMMA == ","
NL    == "\n"
SP    == " "

NULL == <<"NULL">>

Lower == <<"a","b","c","d","e","f","g","h","i","j","k","l","m",
           "n","o","p","q","r","s","t","u","v","w","x","y","z">>
Upper == <<"A","B","C","D","E","F","G","H","I","J","K","L","M",
           "N","O","P","Q","R","S","T","U","V","W","X","Y","Z">>
Digit == <<"0","1","2","3","4","5","6","7","8","9">>

IsUpper(c) == \E i \in 1..26 : Upper[i] = c
IsLower(c) == \E i \in 1..26 : Lower[i] = c
IsDigit(c) == \E i \in 1..10 : Digit[i] = c
DigitVal(c) == (CHOOSE i \in 1..10 : Digit[i] = c) - 1

\* the characters of the model
Chars == {Lower[i] : i \in 1..26} \cup {Upper[i] : i \in 1..26} \cup {Digit[i] : i \in 1..10}
           \cup {"\t", NL, "\r", SP, Q, "+", COMMA, "-", ".", "_"}

\* ASCII code of a character (unsigned char value)
AsciiOf(c) ==
    IF IsUpper(c) THEN 64 + (CHOOSE i \in 1..26 : Upper[i] = c)
    ELSE IF IsLower(c) THEN 96 + (CHOOSE i \in 1..26 : Lower[i] = c)
    ELSE IF IsDigit(c) THEN 48 + DigitVal(c)
    ELSE CASE c = "\t" -> 9
           [] c = NL   -> 10
           [] c = "\r" -> 13
           [] c = SP   -> 32
           [] c = Q    -> 34
           [] c = "+"  -> 43
           [] c = COMMA -> 44
           [] c = "-"  -> 45
           [] c = "."  -> 46
           [] c = "_"  -> 95

isspace(c) == c \in {SP, "\t", NL, "\r"}

Ascii == [c \in Chars |-> AsciiOf(c)]

Code(c) == Ascii[c]

ToLower == [c \in Chars |-> IF IsUpper(c) THEN Lower[CHOOSE i \in 1..26 : Upper[i] = c] ELSE c]

tolower(c) == ToLower[c]

\* the int type of the build: 32-bit two's complement
INT_MAX == (2^30 - 1) + 2^30
INT_MIN == (-INT_MAX) - 1

\* strchr(s, c) != NULL
strchr(s, c) == \E i \in 1..Len(s) : s[i] = c

\* strstr(h, n) != NULL
strstr(h, n) == \E i \in 0..(Len(h) - Len(n)) : SubSeq(h, i + 1, i + Len(n)) = n

Suffix(s, i) == SubSeq(s, i, Len(s))

\* index of the first character at or after i that is not white space
RECURSIVE SkipSpace(_, _)
SkipSpace(s, i) == IF i <= Len(s) /\ isspace(s[i]) THEN SkipSpace(s, i + 1) ELSE i

\* length left after dropping trailing white space
RECURSIVE TrimEnd(_, _)
TrimEnd(s, len) == IF len > 0 /\ isspace(s[len]) THEN TrimEnd(s, len - 1) ELSE len

trim(s) ==
    LET t == Suffix(s, SkipSpace(s, 1))
    IN  SubSeq(t, 1, TrimEnd(t, Len(t)))

strdup_safe(s) == s

\* a copy that keeps the case: with it the search is case-sensitive
str_copy_keep_case(s) == s

str_tolower_copy(s) == [i \in 1..Len(s) |-> tolower(s[i])]

\* strcasecmp: sign of the first difference of the lower-cased bytes
RECURSIVE strcasecmp(_, _)
strcasecmp(a, b) ==
    IF a = <<>> /\ b = <<>> THEN 0
    ELSE IF a = <<>> THEN -1
    ELSE IF b = <<>> THEN 1
    ELSE LET d == Code(tolower(a[1])) - Code(tolower(b[1]))
         IN  IF d # 0 THEN d ELSE strcasecmp(Tail(a), Tail(b))

\* the run of decimal digits of s from i on, as an int of the sign given; a
\* value outside int stays at the end of the range
RECURSIVE DigitsVal(_, _, _, _)
DigitsVal(s, i, acc, neg) ==
    IF i > Len(s) \/ ~IsDigit(s[i]) THEN acc
    ELSE LET d == DigitVal(s[i])
             q == INT_MAX \div 10
         IN  IF neg
             THEN IF acc > -q \/ (acc = -q /\ d <= 8)
                  THEN DigitsVal(s, i + 1, acc * 10 - d, neg)
                  ELSE INT_MIN
             ELSE IF acc < q \/ (acc = q /\ d <= 7)
                  THEN DigitsVal(s, i + 1, acc * 10 + d, neg)
                  ELSE INT_MAX

RECURSIVE DigitsEnd(_, _)
DigitsEnd(s, i) == IF i <= Len(s) /\ IsDigit(s[i]) THEN DigitsEnd(s, i + 1) ELSE i

\* strtol(tok, &end, 10): [v |-> value, end |-> index of *end]; no digits: v = 0, end = start
strtol(s) ==
    LET i0  == SkipSpace(s, 1)
        neg == i0 <= Len(s) /\ s[i0] = "-"
        i1  == IF i0 <= Len(s) /\ s[i0] \in {"-", "+"} THEN i0 + 1 ELSE i0
        e   == DigitsEnd(s, i1)
        v   == DigitsVal(s, i1, 0, neg)
    IN  IF e = i1 THEN [v |-> 0, end |-> 1]
        ELSE [v |-> v, end |-> e]

atoi(s) == strtol(s).v

\* printf("%d")
RECURSIVE NatToStr(_)
NatToStr(n) == IF n < 10 THEN <<Digit[n + 1]>>
               ELSE Append(NatToStr(n \div 10), Digit[(n % 10) + 1])

IntToStr(n) ==
    IF n >= 0 THEN NatToStr(n)
    ELSE IF n = INT_MIN THEN <<"-">> \o Append(NatToStr(INT_MAX \div 10), "8")
    ELSE <<"-">> \o NatToStr(-n)

\* a - b is outside int: the subtraction is undefined in C
SubOverflows(a, b) == (b < 0 /\ a > INT_MAX + b) \/ (b > 0 /\ a < INT_MIN + b)

\* a - b in int arithmetic, wrapping when it overflows
IntSub(a, b) ==
    IF b < 0 /\ a > INT_MAX + b THEN (a - INT_MAX - 1) - (b + INT_MAX + 1)
    ELSE IF b > 0 /\ a < INT_MIN + b THEN (a + INT_MAX + 1) + ((INT_MAX - b) + 1)
    ELSE a - b

(* ------------------------------------------------------------------ *)
(* Program constants                                                    *)
(* ------------------------------------------------------------------ *)
INITIAL_CAP == 32
MAX_LINE == 1024
DEFAULT_SAVE == <<"p","l","a","y","l","i","s","t",".","c","s","v">>

(* ------------------------------------------------------------------ *)
(* Track and the playlist operations                                    *)
(* ------------------------------------------------------------------ *)
Track(title, artist, album, duration) ==
    [title |-> title, artist |-> artist, album |-> album, duration |-> duration]

\* Playlist: items[0 .. size-1] is the sequence items (size = Len(items)); cap
Playlist(items, cap) == [items |-> items, cap |-> cap]

init_playlist == Playlist(<<>>, INITIAL_CAP)

ensure_capacity(p) ==
    IF Len(p.items) < p.cap THEN p ELSE Playlist(p.items, p.cap * 2)

\* a variant that puts the new track in front of the others
add_track_front(p, title, artist, album, duration) ==
    LET q == ensure_capacity(p)
    IN  Playlist(<<Track(strdup_safe(title), strdup_safe(artist),
                         strdup_safe(album), duration)>> \o q.items, q.cap)

add_track(p, title, artist, album, duration) ==
    LET q == ensure_capacity(p)
    IN  Playlist(Append(q.items, Track(strdup_safe(title), strdup_safe(artist),
                                       strdup_safe(album), duration)), q.cap)

\* a variant that leaves out the shift of the later tracks: the last is lost
remove_track_no_shift(p, idx) ==
    IF idx >= Len(p.items) THEN p
    ELSE Playlist(SubSeq(p.items, 1, Len(p.items) - 1), p.cap)

\* idx is a size_t, zero-based
remove_track_at(p, idx) ==
    IF idx >= Len(p.items) THEN p
    ELSE Playlist([i \in 1..(Len(p.items) - 1) |->
                     IF i <= idx THEN p.items[i] ELSE p.items[i + 1]], p.cap)

\* the clear command: every track freed, size = 0, capacity kept
clear_playlist(p) == Playlist(<<>>, p.cap)

(* ------------------------------------------------------------------ *)
(* CSV helpers                                                          *)
(* ------------------------------------------------------------------ *)
\* the for loop of csv_escape_field over the characters of s: every double
\* quote is written twice, every other character once (halving keeps the
\* evaluation shallow for long fields)
RECURSIVE EscapeChars(_)
EscapeChars(s) ==
    IF Len(s) = 0 THEN <<>>
    ELSE IF Len(s) = 1 THEN (IF s[1] = Q THEN <<Q, Q>> ELSE s)
    ELSE LET h == Len(s) \div 2
         IN  EscapeChars(SubSeq(s, 1, h)) \o EscapeChars(SubSeq(s, h + 1, Len(s)))

\* a variant that wraps the field in quotes but writes its quotes once
csv_escape_field_once(s) ==
    IF strchr(s, COMMA) \/ strchr(s, Q) THEN <<Q>> \o s \o <<Q>> ELSE s

\* the characters csv_escape_field writes for s
csv_escape_field(s) ==
    IF strchr(s, COMMA) \/ strchr(s, Q)
    THEN <<Q>> \o EscapeChars(s) \o <<Q>>
    ELSE s

\* one iteration of the while loop of the quoted branch; st = [i, tmp, brk]:
\* i the index of *s, tmp the buffer, brk set once the loop is left
QuotedStep(s, st) ==
    IF st.i > Len(s) THEN [st EXCEPT !.brk = TRUE]
    ELSE IF s[st.i] = Q /\ st.i + 1 <= Len(s) /\ s[st.i + 1] = Q
         THEN [i |-> st.i + 2, tmp |-> Append(st.tmp, Q), brk |-> FALSE]
    ELSE IF s[st.i] = Q THEN [i |-> st.i + 1, tmp |-> st.tmp, brk |-> TRUE]
    ELSE [i |-> st.i + 1, tmp |-> Append(st.tmp, s[st.i]),
          brk |-> Len(st.tmp) + 2 >= MAX_LINE]

\* at most n iterations of the loop
RECURSIVE QuotedRun(_, _, _)
QuotedRun(s, st, n) ==
    IF n = 0 \/ st.brk THEN st ELSE QuotedRun(s, QuotedStep(s, st), n - 1)

\* the while loop of the quoted branch, run to its exit (in runs of 64
\* iterations, which keeps the evaluation shallow for long fields)
RECURSIVE ReadQuoted(_, _)
ReadQuoted(s, st) ==
    IF st.brk THEN st ELSE ReadQuoted(s, QuotedRun(s, st, 64))

\* index of the first c in s at or after i; Len(s) + 1 when there is none
FirstAt(s, i, c) ==
    LET at == {j \in i..Len(s) : s[j] = c}
    IN  IF at = {} THEN Len(s) + 1 ELSE CHOOSE j \in at : \A k \in at : j <= k

Min(a, b) == IF a <= b THEN a ELSE b

\* the while loop of the unquoted branch: characters are copied up to the
\* next comma, the end of the string, or until tmp holds MAX_LINE - 1 of them
ReadPlain(s) ==
    LET n == Min(FirstAt(s, 1, COMMA) - 1, MAX_LINE - 1)
    IN  [i |-> n + 1, tmp |-> SubSeq(s, 1, n)]

\* while (*s && *s != ',') s++
SkipToComma(s, i) == FirstAt(s, i, COMMA)

\* csv_read_field(&sp): [val |-> the field, sp |-> *sp afterwards]
csv_read_field(sp) ==
    IF sp = NULL \/ sp = <<>> THEN [val |-> <<>>, sp |-> NULL]
    ELSE LET s == sp
             r == IF s[1] = Q
                  THEN LET q == ReadQuoted(s, [i |-> 2, tmp |-> <<>>, brk |-> FALSE])
                       IN  [tmp |-> q.tmp, i |-> SkipToComma(s, q.i)]
                  ELSE ReadPlain(s)
             j == IF r.i <= Len(s) /\ s[r.i] = COMMA THEN r.i + 1 ELSE r.i
         IN  [val |-> r.tmp, sp |-> IF j <= Len(s) THEN Suffix(s, j) ELSE NULL]

(* ------------------------------------------------------------------ *)
(* Files: a file is the sequence of its characters, or NoFile           *)
(* ------------------------------------------------------------------ *)
NoFile == <<"NOFILE">>

HeaderLine == <<"t","i","t","l","e",",","a","r","t","i","s","t",",",
                "a","l","b","u","m",",","d","u","r","a","t","i","o","n",
                "_","s","e","c","o","n","d","s">>

RecordLine(t) ==
    csv_escape_field(t.title) \o <<COMMA>> \o csv_escape_field(t.artist) \o <<COMMA>>
      \o csv_escape_field(t.album) \o <<COMMA>> \o IntToStr(t.duration) \o <<NL>>

\* the text save_playlist_csv writes
SaveText(p) ==
    LET Body[i \in 0..Len(p.items)] ==
            IF i = 0 THEN <<>> ELSE Body[i - 1] \o RecordLine(p.items[i])
    IN  HeaderLine \o <<NL>> \o Body[Len(p.items)]

\* save_playlist_csv: [ret, file]; fopen(path, "w") fails when the path is not writable
save_playlist_csv(p, old, writable) ==
    IF ~writable THEN [ret |-> 0, file |-> old]
    ELSE [ret |-> 1, file |-> SaveText(p)]

\* fgets(line, MAX_LINE, f) at offset pos (0-based): the offset just after the
\* characters read (through the newline, at most MAX_LINE - 1 of them); pos
\* itself when nothing is left (fgets returns NULL)
FgetsEnd(file, pos) ==
    Min(Min(FirstAt(file, pos + 1, NL), pos + MAX_LINE - 1), Len(file))

fgets(file, pos) == SubSeq(file, pos + 1, FgetsEnd(file, pos))

\* strip newline: *strchr(line, '\n') = '\0'
StripNewline(line) == SubSeq(line, 1, FirstAt(line, 1, NL) - 1)

\* the body of the while loop of load_playlist_csv for one line
LoadLine(p, rawline) ==
    LET line == StripNewline(rawline)
        r1 == csv_read_field(line)
        r2 == csv_read_field(r1.sp)
        r3 == csv_read_field(r2.sp)
        r4 == csv_read_field(r3.sp)
        dur == atoi(r4.val)
    IN  IF r1.val # <<>> THEN add_track(p, r1.val, r2.val, r3.val, dur) ELSE p

IsHeader(line) ==
    strstr(line, <<"t","i","t","l","e">>) /\ strstr(line, <<"a","r","t","i","s","t">>)

RECURSIVE LoadLoop(_, _, _)
LoadLoop(p, file, pos) ==
    LET e == FgetsEnd(file, pos)
    IN  IF e = pos THEN p
        ELSE LoadLoop(LoadLine(p, SubSeq(file, pos + 1, e)), file, e)

\* load_playlist_csv: [ret, pl]
load_playlist_csv(p, file) ==
    IF file = NoFile THEN [ret |-> 0, pl |-> p]
    ELSE LET first == fgets(file, 0)
         IN  IF first = <<>> THEN [ret |-> 0, pl |-> p]
             ELSE LET start == IF ~IsHeader(first) THEN 0 ELSE Len(first)
                  IN  [ret |-> 1, pl |-> LoadLoop(p, file, start)]

(* ------------------------------------------------------------------ *)
(* Search, shuffle, sort, play, index parsing                           *)
(* ------------------------------------------------------------------ *)
\* the test of the if in search_playlist for one track
SearchHit(t, term) ==
    LET low == str_tolower_copy(term)
    IN  \/ strstr(str_tolower_copy(t.title), low)
        \/ strstr(str_tolower_copy(t.artist), low)
        \/ strstr(str_tolower_copy(t.album), low)

\* search_playlist: what it prints; lines is the sequence of print_track calls
\* ([pos |-> idx + 1, track]), nomatch the "No matches" line
search_playlist(p, term) ==
    LET Out[i \in 0..Len(p.items)] ==
            IF i = 0 THEN <<>>
            ELSE IF SearchHit(p.items[i], term)
                 THEN Append(Out[i - 1], [pos |-> i, track |-> p.items[i]])
                 ELSE Out[i - 1]
        lines == Out[Len(p.items)]
    IN  [lines |-> lines, nomatch |-> (lines = <<>>)]

\* the values of rand() % i: position i is never left in place
RandModBelow(i) == 0..(i - 1)

\* the values rand() % (i + 1) can take
RandMod(i) == 0..i

\* the choices of j for the whole loop: js[i] for i = size-1 down to 1
RandChoices(n) == {js \in [1..(n - 1) -> 0..(n - 1)] : \A i \in 1..(n - 1) : js[i] \in RandMod(i)}

\* swap items[i] and items[j] (zero-based)
Swap(items, i, j) ==
    [k \in 1..Len(items) |-> IF k = i + 1 THEN items[j + 1]
                             ELSE IF k = j + 1 THEN items[i + 1] ELSE items[k]]

RECURSIVE ShuffleLoop(_, _, _)
ShuffleLoop(items, i, js) ==
    IF i = 0 THEN items ELSE ShuffleLoop(Swap(items, i, js[i]), i - 1, js)

shuffle_playlist(p, js) ==
    IF Len(p.items) < 2 THEN p
    ELSE Playlist(ShuffleLoop(p.items, Len(p.items) - 1, js), p.cap)

cmp_title(ta, tb) == strcasecmp(ta.title, tb.title)

cmp_artist(ta, tb) ==
    LET r == strcasecmp(ta.artist, tb.artist)
    IN  IF r # 0 THEN r ELSE strcasecmp(ta.title, tb.title)

\* ta->duration - tb->duration in int arithmetic
cmp_duration(ta, tb) == IntSub(ta.duration, tb.duration)

Cmp(kind, ta, tb) ==
    CASE kind = "title"  -> cmp_title(ta, tb)
      [] kind = "artist" -> cmp_artist(ta, tb)
      [] kind = "dur"    -> cmp_duration(ta, tb)

Sign(x) == IF x < 0 THEN -1 ELSE IF x > 0 THEN 1 ELSE 0

Perms(items) ==
    LET n == Len(items)
    IN  {[i \in 1..n |-> items[f[i]]] :
            f \in {g \in [1..n -> 1..n] : \A a, b \in 1..n : a # b => g[a] # g[b]}}

\* the comparison function is consistent on items (the contract of qsort)
CmpConsistent(items, kind) ==
    \A a, b, c \in 1..Len(items) :
        /\ Sign(Cmp(kind, items[a], items[b])) = -Sign(Cmp(kind, items[b], items[a]))
        /\ (Cmp(kind, items[a], items[b]) <= 0 /\ Cmp(kind, items[b], items[c]) <= 0)
              => Cmp(kind, items[a], items[c]) <= 0

\* no comparison of two of the items overflows
CmpDefined(items, kind) ==
    kind = "dur" =>
        \A a, b \in 1..Len(items) : ~SubOverflows(items[a].duration, items[b].duration)

\* qsort(items, size, sizeof(Track), cmp): the arrays it can leave.  With a
\* consistent comparison, any arrangement in its order (equal elements in any
\* order); with an inconsistent one, or one whose subtraction overflows (which
\* may wrap or not), the result is unspecified, any arrangement.
qsort(items, kind) ==
    IF CmpDefined(items, kind) /\ CmpConsistent(items, kind)
    THEN {r \in Perms(items) :
            \A i, j \in 1..Len(r) : i < j => Cmp(kind, r[i], r[j]) <= 0}
    ELSE Perms(items)

\* play_track: the argument of sleep()
DemoSeconds(t) == IF t.duration < 6 THEN t.duration ELSE 5

\* parse_index_token(tok, max)
parse_index_token(tok, max) ==
    IF tok = NULL THEN -1
    ELSE LET r == strtol(tok)
         IN  IF r.end <= Len(tok) \/ r.v < 1 \/ r.v > max THEN -1 ELSE r.v - 1

\* read_input_line: raw is the line typed (without its newline), NULL at end of input
read_input_line(raw) == IF raw = NULL THEN NULL ELSE strdup_safe(trim(raw))

\* strtok(s, " "): the first token of s and what follows its delimiter
RECURSIVE SkipDelim(_, _)
SkipDelim(s, i) == IF i <= Len(s) /\ s[i] = SP THEN SkipDelim(s, i + 1) ELSE i

strtok_sp(s) ==
    LET i == SkipDelim(s, 1)
    IN  IF i > Len(s) THEN [tok |-> NULL, rest |-> <<>>]
        ELSE LET e == FirstAt(s, i, SP)
             IN  [tok |-> SubSeq(s, i, e - 1), rest |-> Suffix(s, e + 1)]

\* strtok(NULL, ""): the whole rest, NULL when nothing is left
strtok_all(s) == IF s = <<>> THEN NULL ELSE s

(* ------------------------------------------------------------------ *)
(* The program state                                                    *)
(* ------------------------------------------------------------------ *)
VARIABLES
    pl,     \* the Playlist of main
    fs,     \* the files: file name -> characters, or NoFile
    pc,     \* "start", "loop", "exited", "crashed", "asleep"
    prev,   \* history: pl before the last command
    cmd,    \* history: the last command, [op, arg, ret, out]
    saved   \* history: <<items>> for the items last written to DEFAULT_SAVE, <<>> before

vars == <<pl, fs, pc, prev, cmd, saved>>

\* the most tracks the model lets the playlist hold
MaxTracks == 2

W_add     == <<"a","d","d">>
W_list    == <<"l","i","s","t">>
W_remove  == <<"r","e","m","o","v","e">>
W_search  == <<"s","e","a","r","c","h">>
W_shuffle == <<"s","h","u","f","f","l","e">>
W_sort    == <<"s","o","r","t">>
W_play    == <<"p","l","a","y">>
W_save    == <<"s","a","v","e">>
W_load    == <<"l","o","a","d">>
W_clear   == <<"c","l","e","a","r">>
W_help    == <<"h","e","l","p">>
W_quit    == <<"q","u","i","t">>
W_exit    == <<"e","x","i","t">>
W_title   == <<"t","i","t","l","e">>
W_artist  == <<"a","r","t","i","s","t">>
W_dur     == <<"d","u","r">>
W_duration == <<"d","u","r","a","t","i","o","n">>
Unknown   == <<"U","n","k","n","o","w","n">>

\* the files fopen(path, "w") can create or truncate
Writable == {DEFAULT_SAVE}

Log(op, arg, ret, out) ==
    /\ prev' = pl
    /\ cmd' = [op |-> op, arg |-> arg, ret |-> ret, out |-> out]

\* the branch of the if/else chain of main that a first token selects
Dispatch(tok) ==
    IF strcasecmp(tok, W_add) = 0 THEN "add"
    ELSE IF strcasecmp(tok, W_list) = 0 THEN "list"
    ELSE IF strcasecmp(tok, W_remove) = 0 THEN "remove"
    ELSE IF strcasecmp(tok, W_search) = 0 THEN "search"
    ELSE IF strcasecmp(tok, W_shuffle) = 0 THEN "shuffle"
    ELSE IF strcasecmp(tok, W_sort) = 0 THEN "sort"
    ELSE IF strcasecmp(tok, W_play) = 0 THEN "play"
    ELSE IF strcasecmp(tok, W_save) = 0 THEN "save"
    ELSE IF strcasecmp(tok, W_load) = 0 THEN "load"
    ELSE IF strcasecmp(tok, W_clear) = 0 THEN "clear"
    ELSE IF strcasecmp(tok, W_help) = 0 THEN "help"
    ELSE IF strcasecmp(tok, W_quit) = 0 \/ strcasecmp(tok, W_exit) = 0 THEN "quit"
    ELSE "unknown"

\* what main does with a line read at the prompt, up to the if/else chain:
\* trim, the blank-line test, the first strtok, the branch
ParseLine(raw) ==
    LET c == trim(raw)
        t == strtok_sp(c)
    IN  [tok  |-> t.tok,
         rest |-> t.rest,
         op   |-> IF c = <<>> \/ t.tok = NULL THEN "blank" ELSE Dispatch(t.tok)]

(* ------------------------------------------------------------------ *)
(* Inputs: file names, the lines typed at the prompt                    *)
(* ------------------------------------------------------------------ *)
F_mix  == <<"m">>     \* a file without a header line
F_none == <<"n">>     \* no such file
F_ro   == <<"r">>     \* a path that cannot be opened for writing


MainLines ==
    { <<SP>>,
      <<SP,"A","D","d",SP>>,
      W_list,
      W_remove \o <<SP,"1">>, W_remove \o <<SP,"x">>,
      W_search, W_search \o <<SP,"U","N">>,
      W_shuffle,
      W_sort \o <<SP>> \o W_dur, W_sort \o <<SP,"x">>,
      W_play \o <<SP,"1">>,
      W_save, W_save \o <<SP>> \o F_ro,
      W_load, W_load \o <<SP>> \o F_mix, W_load \o <<SP>> \o F_none,
      W_clear, W_help, W_quit, <<"f","o","o">> }

\* answers to the prompts of "add": title, artist, album, duration
MainAdds ==
    { <<<<SP,"A","b",SP>>, <<"x">>, <<>>, <<"7">>>>,
      <<<<"c">>, NULL, NULL, NULL>>,
      <<<<SP,SP>>, <<"x">>, <<"y">>, <<"1">>>>,
      <<NULL, NULL, NULL, NULL>> }

MainTerms == {NULL, <<SP,"b",SP>>}

\* lines for the collection operations
CollLines ==
    { W_list,
      W_remove, W_remove \o <<SP,"1">>, W_remove \o <<SP,SP,"2">>, W_remove \o <<SP,"3">>,
      W_remove \o <<SP,"4">>, W_remove \o <<SP,"0">>, W_remove \o <<SP,"9">>,
      W_remove \o <<SP,"-","1">>, W_remove \o <<SP,"+","2">>, W_remove \o <<SP,"0","1">>,
      W_remove \o <<SP,"2","x">>, W_remove \o <<SP,"x">>,
      <<"R","e","M","o","v","e",SP,"1",SP,"2">>,
      W_search \o <<SP,"A","B">>, W_search \o <<SP,"b">>, W_search \o <<SP,"L","Z">>,
      W_search \o <<SP,COMMA>>, W_search \o <<SP,"n","K","n">>, W_search \o <<SP,SP,"x">>,
      W_search,
      W_shuffle,
      W_sort, W_sort \o <<SP>> \o W_title, W_sort \o <<SP>> \o W_artist,
      W_sort \o <<SP>> \o W_dur, <<"S","O","R","T",SP,"D","u","r","a","t","i","o","n">>,
      W_sort \o <<SP,"x">>,
      W_play \o <<SP,"1">>, W_play \o <<SP,"9">> }

\* answers to the "Search term:" prompt
CollTerms == { <<>>, <<SP,"L",SP>> }

\* lines for saving and loading
F_empty   == <<"e">>    \* an empty file
F_header  == <<"h">>    \* the header line only
F_caps    == <<"c">>    \* a header in capitals, then a record
F_short   == <<"s">>    \* rows with fewer than four fields, no header
F_quote   == <<"q">>    \* a header, then a record with an unclosed quote
F_titled  == <<"t">>    \* no header; the first record contains "title" and "artist"
F_long    == <<"l">>    \* a header line longer than the line buffer, then a record
F_blank   == <<"b">>    \* a blank first line, a record, a blank line, a line of spaces

CodecLines ==
    { W_save, W_save \o <<SP>> \o F_ro, W_clear, W_load, W_load \o <<SP>> \o F_none }

FixtureLines ==
    { W_clear } \cup
    { W_load \o <<SP>> \o f :
        f \in {F_empty, F_header, F_caps, F_short, F_quote, F_titled, F_long, F_blank,
               F_mix, F_none} }

\* every line typed at the prompt in some specification, parsed once
Lines == MainLines \cup CollLines \cup CodecLines \cup FixtureLines

Parsed == [raw \in Lines |-> ParseLine(raw)]

Tok(raw)  == Parsed[raw].tok
Rest(raw) == Parsed[raw].rest

\* the loop is at its prompt, raw is typed, and the chain takes branch op
Is(raw, op) == pc = "loop" /\ Parsed[raw].op = op

\* main up to the command loop: init_playlist, then the default file is loaded
Startup ==
    /\ pc = "start"
    /\ pl' = load_playlist_csv(init_playlist, fs[DEFAULT_SAVE]).pl
    /\ pc' = "loop"
    /\ Log("startup", DEFAULT_SAVE, load_playlist_csv(init_playlist, fs[DEFAULT_SAVE]).ret, <<>>)
    /\ UNCHANGED <<fs, saved>>

\* a blank command line: continue
BlankCmd(raw) ==
    /\ Is(raw, "blank")
    /\ Log("blank", raw, 0, <<>>)
    /\ UNCHANGED <<pl, fs, pc, saved>>

\* a test for a missing title that lets an empty one through
TitleNull(title) == title = NULL

\* if (!title || !*title): "Title required."
TitleMissing(title) == title = NULL \/ title = <<>>

\* "add": the four prompts are answered with traw, araw, lraw, draw (NULL: end of input)
AddCmd(raw, traw, araw, lraw, draw) ==
    /\ Is(raw, "add")
    /\ LET title  == read_input_line(traw)
           artist == read_input_line(araw)
           album  == read_input_line(lraw)
           dur_s  == read_input_line(draw)
           dur    == atoi(IF dur_s # NULL THEN dur_s ELSE <<"0">>)
       IN  IF TitleMissing(title)
           THEN /\ pl' = pl
                /\ Log("add", <<traw, araw, lraw, draw>>, 0, <<>>)
           ELSE /\ Len(pl.items) < MaxTracks
                /\ pl' = add_track(pl, title,
                                   IF artist = NULL THEN strdup_safe(Unknown) ELSE artist,
                                   IF album = NULL THEN strdup_safe(Unknown) ELSE album,
                                   dur)
                /\ Log("add", <<traw, araw, lraw, draw>>, 1, <<>>)
    /\ UNCHANGED <<fs, pc, saved>>

ListCmd(raw) ==
    /\ Is(raw, "list")
    /\ Log("list", <<>>, 0, pl.items)
    /\ UNCHANGED <<pl, fs, pc, saved>>

RemoveCmd(raw) ==
    /\ Is(raw, "remove")
    /\ LET n   == strtok_sp(Rest(raw)).tok
           idx == parse_index_token(n, Len(pl.items))
       IN  IF idx < 0
           THEN /\ pl' = pl
                /\ Log("remove", n, -1, <<>>)
           ELSE /\ pl' = remove_track_at(pl, idx)
                /\ Log("remove", n, idx, <<>>)
    /\ UNCHANGED <<fs, pc, saved>>

\* "search": praw answers the "Search term:" prompt when the line has no term
SearchCmd(raw, praw) ==
    /\ Is(raw, "search")
    /\ LET t0   == strtok_all(Rest(raw))
           term == IF t0 = NULL THEN read_input_line(praw) ELSE t0
       IN  IF term = NULL
           THEN \* str_tolower_copy(NULL) dereferences a null pointer
                /\ pc' = "crashed"
                /\ Log("search", NULL, 0, <<>>)
           ELSE /\ pc' = pc
                /\ Log("search", term, 0, search_playlist(pl, term))
    /\ UNCHANGED <<pl, fs, saved>>

ShuffleCmd(raw) ==
    /\ Is(raw, "shuffle")
    /\ \E js \in RandChoices(Len(pl.items)) : pl' = shuffle_playlist(pl, js)
    /\ Log("shuffle", <<>>, 0, <<>>)
    /\ UNCHANGED <<fs, pc, saved>>

SortKind(kind) ==
    IF kind = NULL THEN "usage"
    ELSE IF strcasecmp(kind, W_title) = 0 THEN "title"
    ELSE IF strcasecmp(kind, W_artist) = 0 THEN "artist"
    ELSE IF strcasecmp(kind, W_dur) = 0 \/ strcasecmp(kind, W_duration) = 0 THEN "dur"
    ELSE "unknown"

SortCmd(raw) ==
    /\ Is(raw, "sort")
    /\ LET k == SortKind(strtok_sp(Rest(raw)).tok)
       IN  IF k \in {"usage", "unknown"}
           THEN /\ pl' = pl
                /\ Log("sort", k, 0, <<>>)
           ELSE /\ \E r \in qsort(pl.items, k) : pl' = Playlist(r, pl.cap)
                /\ Log("sort", k, 1, <<>>)
    /\ UNCHANGED <<fs, pc, saved>>

\* "play": sleep(demo_seconds) takes an unsigned argument, so a negative
\* duration blocks the process for good
PlayCmd(raw) ==
    /\ Is(raw, "play")
    /\ LET n   == strtok_sp(Rest(raw)).tok
           idx == parse_index_token(n, Len(pl.items))
       IN  IF idx < 0
           THEN /\ pc' = pc
                /\ Log("play", n, -1, <<>>)
           ELSE /\ pc' = IF DemoSeconds(pl.items[idx + 1]) < 0 THEN "asleep" ELSE pc
                /\ Log("play", n, idx, <<pl.items[idx + 1]>>)
    /\ UNCHANGED <<pl, fs, saved>>

FileArg(raw) ==
    LET f == strtok_sp(Rest(raw)).tok IN IF f = NULL THEN DEFAULT_SAVE ELSE f

SaveCmd(raw) ==
    /\ Is(raw, "save")
    /\ FileArg(raw) \in DOMAIN fs
    /\ LET file == FileArg(raw)
           r    == save_playlist_csv(pl, fs[file], file \in Writable)
       IN  /\ fs' = [fs EXCEPT ![file] = r.file]
           /\ saved' = IF r.ret = 1 /\ file = DEFAULT_SAVE THEN <<pl.items>> ELSE saved
           /\ Log("save", file, r.ret, <<>>)
    /\ UNCHANGED <<pl, pc>>

LoadCmd(raw) ==
    /\ Is(raw, "load")
    /\ FileArg(raw) \in DOMAIN fs
    /\ LET file == FileArg(raw)
           r    == load_playlist_csv(pl, fs[file])
       IN  /\ Len(r.pl.items) <= MaxTracks
           /\ pl' = r.pl
           /\ Log("load", file, r.ret, <<>>)
    /\ UNCHANGED <<fs, pc, saved>>

ClearCmd(raw) ==
    /\ Is(raw, "clear")
    /\ pl' = clear_playlist(pl)
    /\ Log("clear", <<>>, 0, <<>>)
    /\ UNCHANGED <<fs, pc, saved>>

HelpCmd(raw) ==
    /\ Is(raw, "help")
    /\ Log("help", <<>>, 0, <<>>)
    /\ UNCHANGED <<pl, fs, pc, saved>>

\* free_playlist at the end of main
free_playlist(p) == Playlist(<<>>, 0)

\* "quit" or "exit": the playlist is saved to the default file, then main ends
QuitCmd(raw) ==
    /\ Is(raw, "quit")
    /\ LET r == save_playlist_csv(pl, fs[DEFAULT_SAVE], DEFAULT_SAVE \in Writable)
       IN  /\ fs' = [fs EXCEPT ![DEFAULT_SAVE] = r.file]
           /\ saved' = IF r.ret = 1 THEN <<pl.items>> ELSE saved
           /\ Log("quit", DEFAULT_SAVE, r.ret, <<>>)
    /\ pl' = free_playlist(pl)
    /\ pc' = "exited"

UnknownCmd(raw) ==
    /\ Is(raw, "unknown")
    /\ Log("unknown", Tok(raw), 0, <<>>)
    /\ UNCHANGED <<pl, fs, pc, saved>>

\* end of input at the prompt: the loop is left without saving
EofCmd ==
    /\ pc = "loop"
    /\ pl' = free_playlist(pl)
    /\ pc' = "exited"
    /\ Log("eof", <<>>, 0, <<>>)
    /\ UNCHANGED <<fs, saved>>

(* ------------------------------------------------------------------ *)
(* The program run from its start, with a small set of inputs           *)
(* ------------------------------------------------------------------ *)
\* "Q,z",r,,-2 / a line whose first field is empty / a line of one field
MixText == <<Q,"Q",COMMA,"z",Q,COMMA,"r",COMMA,COMMA,"-","2",NL,
             COMMA,"s",COMMA,"k",COMMA,"1",NL>>

NoCmd == [op |-> "none", arg |-> <<>>, ret |-> 0, out |-> <<>>]

MainFS == (DEFAULT_SAVE :> NoFile) @@ (F_mix :> MixText) @@ (F_none :> NoFile) @@ (F_ro :> NoFile)

Init ==
    /\ pl = Playlist(<<>>, 0)
    /\ fs = MainFS
    /\ pc = "start"
    /\ prev = Playlist(<<>>, 0)
    /\ cmd = NoCmd
    /\ saved = <<>>

Next ==
    \/ Startup
    \/ EofCmd
    \/ \E raw \in MainLines :
          \/ BlankCmd(raw)
          \/ \E a \in MainAdds : AddCmd(raw, a[1], a[2], a[3], a[4])
          \/ ListCmd(raw)
          \/ RemoveCmd(raw)
          \/ \E t \in MainTerms : SearchCmd(raw, t)
          \/ ShuffleCmd(raw)
          \/ SortCmd(raw)
          \/ PlayCmd(raw)
          \/ SaveCmd(raw)
          \/ LoadCmd(raw)
          \/ ClearCmd(raw)
          \/ HelpCmd(raw)
          \/ QuitCmd(raw)
          \/ UnknownCmd(raw)

Spec == Init /\ [][Next]_vars

(* ------------------------------------------------------------------ *)
(* The collection operations on every small playlist                    *)
(* ------------------------------------------------------------------ *)
\* the most tracks of a playlist the collection operations start from
MaxColl == 3

CollTracks ==
    { Track(<<"A","b">>, <<"x">>, <<"L">>, INT_MAX),
      Track(<<"b",COMMA,Q>>, Unknown, <<>>, -2),
      Track(<<"a","B">>, <<"X">>, <<"l","z">>, 7) }

InitColl ==
    /\ pl \in {Playlist(c, INITIAL_CAP) : c \in UNION {[1..n -> CollTracks] : n \in 0..MaxColl}}
    /\ fs = MainFS
    /\ pc = "loop"
    /\ prev = pl
    /\ cmd = NoCmd
    /\ saved = <<>>

NextColl ==
    \E raw \in CollLines :
        \/ ListCmd(raw)
        \/ RemoveCmd(raw)
        \/ \E t \in CollTerms : SearchCmd(raw, t)
        \/ ShuffleCmd(raw)
        \/ SortCmd(raw)
        \/ PlayCmd(raw)

SpecColl == InitColl /\ [][NextColl]_vars

(* ------------------------------------------------------------------ *)
(* Saving and loading every small playlist                              *)
(* ------------------------------------------------------------------ *)
\* the longest text field of the playlists that are saved and loaded
MaxFieldLen == 2

CodecAlphabet == {"a", COMMA, Q}

Fields == UNION {[1..n -> CodecAlphabet] : n \in 0..MaxFieldLen}

Durations == {INT_MIN, -2, 0, 125, INT_MAX}

\* a track with a title as long as read_input_line can return; its record does
\* not fit the line buffer of load_playlist_csv
LongTrack ==
    Track([i \in 1..(MAX_LINE - 1) |-> IF i = 5 THEN COMMA ELSE IF i = 9 THEN Q ELSE "a"],
          <<"b">>, <<"x">>, 5)

CodecColls ==
    {<<>>, <<LongTrack>>}
      \cup {<<Track(t, a, <<>>, 0)>> : t \in Fields \ {<<>>}, a \in Fields}
      \cup {<<Track(<<"a">>, <<SP,"a">>, al, d)>> : al \in Fields, d \in Durations}
      \cup {<<t, u>> : t, u \in CollTracks}

NoFS == (DEFAULT_SAVE :> NoFile) @@ (F_none :> NoFile) @@ (F_ro :> NoFile)

InitCodec ==
    /\ pl \in {Playlist(c, INITIAL_CAP) : c \in CodecColls}
    /\ fs = NoFS
    /\ pc = "loop"
    /\ prev = pl
    /\ cmd = NoCmd
    /\ saved = <<>>

NextCodec ==
    \E raw \in CodecLines :
        \/ SaveCmd(raw)
        \/ LoadCmd(raw)
        \/ ClearCmd(raw)

SpecCodec == InitCodec /\ [][NextCodec]_vars

(* ------------------------------------------------------------------ *)
(* Loading files the program did not write                              *)
(* ------------------------------------------------------------------ *)
EmptyText  == <<>>
HeaderText == HeaderLine \o <<NL>>
CapsText   == <<"T","i","t","l","e",COMMA,"A","r","t","i","s","t",NL,
                "x",COMMA,"y",COMMA,"z",COMMA,"5",NL>>
ShortText  == <<"a",NL,"b",COMMA,"c",COMMA,"d",COMMA,"x","1",NL>>
QuoteText  == HeaderLine \o <<NL, Q,"u",COMMA,"n",NL,
                              Q,"a",Q,"b",COMMA,"c",COMMA,COMMA,"+","3",NL>>
TitledText == <<"m","y",SP>> \o W_title \o <<COMMA>> \o W_artist \o <<SP,"x",COMMA,"l",COMMA,"5",NL,
                "q",COMMA,"r",COMMA,"s",COMMA,"1">>
LongText   == HeaderLine \o <<COMMA>> \o [i \in 1..1000 |-> "x"] \o <<NL,
                "k",COMMA,"l",COMMA,"m",COMMA,"1",NL>>
BlankText  == <<NL, "d",COMMA,"e",NL, NL, SP,SP,NL>>

FixtureFS ==
    (DEFAULT_SAVE :> NoFile) @@ (F_none :> NoFile) @@ (F_mix :> MixText)
      @@ (F_empty :> EmptyText) @@ (F_header :> HeaderText) @@ (F_caps :> CapsText)
      @@ (F_short :> ShortText) @@ (F_quote :> QuoteText) @@ (F_titled :> TitledText)
      @@ (F_long :> LongText) @@ (F_blank :> BlankText)

InitLoad ==
    /\ pl \in {Playlist(c, INITIAL_CAP) : c \in {<<>>} \cup {<<t>> : t \in CollTracks}}
    /\ fs = FixtureFS
    /\ pc = "loop"
    /\ prev = pl
    /\ cmd = NoCmd
    /\ saved = <<>>

NextLoad ==
    \E raw \in FixtureLines :
        \/ LoadCmd(raw)
        \/ ClearCmd(raw)

SpecLoad == InitLoad /\ [][NextLoad]_vars

(* ------------------------------------------------------------------ *)
(* Properties                                                           *)
(* ------------------------------------------------------------------ *)
NoNewline(items) ==
    \A i \in 1..Len(items) :
        ~strchr(items[i].title, NL) /\ ~strchr(items[i].artist, NL) /\ ~strchr(items[i].album, NL)

\* the state follows a load of the default file into an empty playlist, the
\* file being what save_playlist_csv wrote for the items saved
LoadedSavedIntoEmpty ==
    /\ cmd.op = "load"
    /\ cmd.arg = DEFAULT_SAVE
    /\ saved # <<>>
    /\ fs[DEFAULT_SAVE] = SaveText(Playlist(saved[1], INITIAL_CAP))
    /\ prev.items = <<>>
    /\ NoNewline(saved[1])

\* C1: saving a playlist whose fields hold no newline and loading the file
\* into an empty playlist gives the same tracks, field for field, in order.
C1_RoundTrip ==
    LoadedSavedIntoEmpty => (cmd.ret = 1 /\ pl.items = saved[1])

\* the same for playlists whose record lines, newline included, fit the line
\* buffer of load_playlist_csv
C1_RoundTripShortLines ==
    (LoadedSavedIntoEmpty /\ \A i \in 1..Len(saved[1]) : Len(RecordLine(saved[1][i])) <= MAX_LINE - 1)
        => (cmd.ret = 1 /\ pl.items = saved[1])

C1_RoundTripShortLinesWitness ==
    /\ LoadedSavedIntoEmpty
    /\ Len(saved[1]) = 2
    /\ \E i \in 1..2 : strchr(saved[1][i].title, Q) /\ strchr(saved[1][i].title, COMMA)
    /\ pl.items = saved[1]

\* number of double quotes among the first k characters of s
QuotesIn(s, k) == Cardinality({j \in 1..k : s[j] = Q})

\* e is s wrapped in double quotes with every double quote of s doubled
QuotedForm(e, s) ==
    /\ Len(e) = Len(s) + 2 + QuotesIn(s, Len(s))
    /\ e[1] = Q
    /\ e[Len(e)] = Q
    /\ \A i \in 1..Len(s) :
          LET p == 1 + i + QuotesIn(s, i - 1)
          IN  e[p] = s[i] /\ (s[i] = Q => e[p + 1] = Q)

NeedsQuoting(s) == strchr(s, COMMA) \/ strchr(s, Q)

\* field s, escaped, is read back exactly: at the end of a line, and followed
\* by a comma and the text after, where the cursor is left at after
ReadsBack(s, after) ==
    LET e == csv_escape_field(s)
        r == csv_read_field(e \o <<COMMA>> \o after)
        z == csv_read_field(e)
    IN  /\ QuotedForm(e, s)
        /\ r.val = s
        /\ r.sp = after
        /\ z.val = s
        /\ z.sp = NULL

\* C2: a field with a comma or a double quote is written wrapped in quotes
\* with its quotes doubled, and csv_read_field reads it back exactly, leaving
\* the cursor at the start of the next field.
C2_EscapeThenRead ==
    (cmd.op = "save" /\ cmd.ret = 1) =>
        \A i \in 1..Len(pl.items) :
            LET t  == pl.items[i]
                a3 == IntToStr(t.duration)
                a2 == csv_escape_field(t.album) \o <<COMMA>> \o a3
                a1 == csv_escape_field(t.artist) \o <<COMMA>> \o a2
            IN  /\ NeedsQuoting(t.title) => ReadsBack(t.title, a1)
                /\ NeedsQuoting(t.artist) => ReadsBack(t.artist, a2)
                /\ NeedsQuoting(t.album) => ReadsBack(t.album, a3)

C2_EscapeThenReadWitness ==
    /\ cmd.op = "save"
    /\ cmd.ret = 1
    /\ fs[DEFAULT_SAVE] = SaveText(pl)
    /\ \E i \in 1..Len(pl.items) :
          /\ pl.items[i].title = <<COMMA, Q>>
          /\ pl.items[i].artist = <<Q, Q>>

\* s without its k-th element
DeleteAt(s, k) == SubSeq(s, 1, k - 1) \o SubSeq(s, k + 1, Len(s))

\* tok is a decimal numeral: an optional sign, then digits only
IsNumeral(tok) ==
    /\ tok # NULL
    /\ LET d == IF tok # <<>> /\ tok[1] \in {"+", "-"} THEN Tail(tok) ELSE tok
       IN  d # <<>> /\ \A i \in 1..Len(d) : IsDigit(d[i])

\* the value of a numeral of at most three digits
NumeralValue(tok) ==
    LET neg == tok[1] = "-"
        d   == IF tok[1] \in {"+", "-"} THEN Tail(tok) ELSE tok
        abs == IF Len(d) = 1 THEN DigitVal(d[1])
               ELSE IF Len(d) = 2 THEN 10 * DigitVal(d[1]) + DigitVal(d[2])
               ELSE 100 * DigitVal(d[1]) + 10 * DigitVal(d[2]) + DigitVal(d[3])
    IN  IF neg THEN -abs ELSE abs

\* C3: removing index i of n tracks, 0 <= i < n, deletes exactly that element;
\* any other index, and every "remove N" whose N is not a number in 1..n,
\* leaves the playlist unchanged.
C3_RemoveAt ==
    cmd.op = "remove" =>
        LET n   == Len(prev.items)
            tok == cmd.arg
            ok  == IsNumeral(tok) /\ NumeralValue(tok) \in 1..n
        IN  /\ ok => /\ pl.items = DeleteAt(prev.items, NumeralValue(tok))
                     /\ Len(pl.items) = n - 1
                     /\ pl.cap = prev.cap
            /\ ~ok => pl = prev
            /\ \A i \in 0..(n - 1) : remove_track_at(prev, i).items = DeleteAt(prev.items, i + 1)
            /\ \A i \in n..(n + 2) : remove_track_at(prev, i) = prev

C3_RemoveAtWitness ==
    /\ cmd.op = "remove"
    /\ cmd.arg = <<"2">>
    /\ Len(prev.items) = 3
    /\ prev.items[1] # prev.items[2]
    /\ prev.items[2] # prev.items[3]
    /\ pl.items = <<prev.items[1], prev.items[3]>>

IsAlpha(c) == IsUpper(c) \/ IsLower(c)

\* a and b are the same character up to ASCII case
SameFolded(a, b) ==
    \/ a = b
    \/ IsAlpha(a) /\ IsAlpha(b) /\ (Code(a) - Code(b) = 32 \/ Code(b) - Code(a) = 32)

\* term occurs in f as a substring, ignoring ASCII case
ContainsFolded(f, term) ==
    \E off \in 0..(Len(f) - Len(term)) :
        \A k \in 1..Len(term) : SameFolded(f[off + k], term[k])

Matches(t, term) ==
    ContainsFolded(t.title, term) \/ ContainsFolded(t.artist, term) \/ ContainsFolded(t.album, term)

\* C4: search prints exactly the tracks whose title, artist or album contains
\* the term ignoring ASCII case, each with its position, in playlist order;
\* "No matches" exactly when there is none; the playlist is unchanged.
C4_Search ==
    (cmd.op = "search" /\ cmd.arg # NULL) =>
        LET items == prev.items
            term  == cmd.arg
            hits  == {i \in 1..Len(items) : Matches(items[i], term)}
            lines == cmd.out.lines
        IN  /\ pl = prev
            /\ Len(lines) = Cardinality(hits)
            /\ \A k \in 1..Len(lines) :
                  /\ lines[k].pos \in hits
                  /\ lines[k].track = items[lines[k].pos]
                  /\ k > 1 => lines[k - 1].pos < lines[k].pos
            /\ cmd.out.nomatch <=> (hits = {})

C4_SearchWitness ==
    /\ cmd.op = "search"
    /\ cmd.arg = <<"A", "B">>
    /\ Len(prev.items) = 3
    /\ Len(cmd.out.lines) = 2
    /\ cmd.out.lines[1].track.title = <<"a", "B">>
    /\ cmd.out.lines[1].pos = 1
    /\ cmd.out.lines[2].track.title = <<"A", "b">>
    /\ cmd.out.lines[2].pos = 3

\* C5: after "sort dur" every adjacent pair is in ascending order of duration,
\* for durations that are any values of the int type.
C5_SortedByDuration ==
    (cmd.op = "sort" /\ cmd.ret = 1 /\ cmd.arg = "dur") =>
        \A i \in 1..(Len(pl.items) - 1) : pl.items[i].duration <= pl.items[i + 1].duration

\* C6: over all choices of j in [0, i] for i = n-1 down to 1, the results of
\* shuffle_playlist are exactly the permutations of the tracks; a playlist of
\* fewer than two tracks is unchanged.
C6_ShufflePermutations ==
    cmd.op = "shuffle" =>
        LET n       == Len(prev.items)
            results == {shuffle_playlist(prev, js).items : js \in RandChoices(n)}
        IN  /\ results = Perms(prev.items)
            /\ pl.items \in results
            /\ pl.cap = prev.cap
            /\ n < 2 => pl = prev

C6_ShufflePermutationsWitness ==
    /\ cmd.op = "shuffle"
    /\ Len(prev.items) = 3
    /\ Cardinality({prev.items[i] : i \in 1..3}) = 3
    /\ pl.items = <<prev.items[3], prev.items[1], prev.items[2]>>

\* the lines of a text: the runs of characters between newlines
RECURSIVE TextLines(_)
TextLines(text) ==
    IF text = <<>> THEN <<>>
    ELSE LET e == FirstAt(text, 1, NL)
         IN  <<SubSeq(text, 1, e - 1)>> \o TextLines(Suffix(text, e + 1))

HasBoth(line) == strstr(line, W_title) /\ strstr(line, W_artist)

\* the data lines of a file: all its lines but a first line that holds both
\* "title" and "artist"
DataLines(text) ==
    LET ls == TextLines(text)
    IN  IF ls # <<>> /\ HasBoth(ls[1]) THEN Tail(ls) ELSE ls

\* the tracks the data lines decode to, one for each line whose first field
\* is not empty
RECURSIVE DecodeLines(_)
DecodeLines(ls) ==
    IF ls = <<>> THEN <<>>
    ELSE LoadLine(init_playlist, ls[1]).items \o DecodeLines(Tail(ls))

KeptLines(ls) == {i \in 1..Len(ls) : csv_read_field(ls[i]).val # <<>>}

\* C7: loading a file that can be opened always reports success, whatever its
\* content, and adds exactly one track for each data line whose first field is
\* not empty.
C7_LoadNeverFails ==
    (cmd.op = "load" /\ fs[cmd.arg] # NoFile) =>
        /\ cmd.ret = 1
        /\ Len(pl.items) = Len(prev.items) + Cardinality(KeptLines(DataLines(fs[cmd.arg])))

\* C8: the first line is skipped exactly when it holds both "title" and
\* "artist"; otherwise it is decoded like every later line, so no data line
\* is lost or decoded twice.
C8_HeaderSniff ==
    (cmd.op = "load" /\ cmd.ret = 1) =>
        pl.items = prev.items \o DecodeLines(DataLines(fs[cmd.arg]))

IsPrefix(a, b) == Len(a) <= Len(b) /\ SubSeq(b, 1, Len(a)) = a

\* C9: add and load keep the tracks already there in their positions and put
\* the new ones after them, in the order added or found in the file; a failed
\* add or load, save, search, list and play leave the playlist unchanged.
C9_InsertionOrder ==
    /\ cmd.op = "add" =>
          IF cmd.ret = 1
          THEN /\ Len(pl.items) = Len(prev.items) + 1
               /\ IsPrefix(prev.items, pl.items)
               /\ pl.items[Len(pl.items)].title = trim(cmd.arg[1])
          ELSE pl = prev
    /\ cmd.op = "load" =>
          /\ IsPrefix(prev.items, pl.items)
          /\ cmd.ret = 0 => pl = prev
          /\ cmd.ret = 1 =>
                pl.items = prev.items \o load_playlist_csv(init_playlist, fs[cmd.arg]).pl.items
    /\ cmd.op \in {"save", "search", "list", "play"} => pl = prev

C9_InsertionOrderWitness ==
    /\ cmd.op = "load"
    /\ cmd.ret = 1
    /\ Len(prev.items) = 1
    /\ Len(pl.items) = 2
    /\ pl.items[1] = prev.items[1]
    /\ pl.items[2] # pl.items[1]

\* C10: every track of the playlist has a title that is not empty and an
\* artist and album that are not null, so that no record written by save has
\* an empty first field, for which load would skip it.
C10_TitlesNonEmpty ==
    \A i \in 1..Len(pl.items) :
        LET t == pl.items[i]
        IN  /\ t.title # NULL
            /\ t.title # <<>>
            /\ t.artist # NULL
            /\ t.album # NULL
            /\ csv_read_field(StripNewline(fgets(RecordLine(t), 0))).val # <<>>

C10_TitlesNonEmptyWitness ==
    /\ cmd.op = "load"
    /\ cmd.arg = DEFAULT_SAVE
    /\ cmd.ret = 1
    /\ saved # <<>>
    /\ Len(pl.items) = 2
    /\ pl.items[1].artist = Unknown
    /\ pl.items[2] = pl.items[1]

====
